---- MODULE Spec2Model ----
(***************************************************************************)
(* Model of src/Client.js: the chat client's outgoing duplicate            *)
(* suppression (sendMessage / replyTo), the per-user command rate limit    *)
(* (parseMessage / updateLatestCommandLog), the stanza parser and the      *)
(* settings accessors (getUser / getSetting / saveSetting).                *)
(*                                                                         *)
(* JavaScript strings that the code takes apart or builds are sequences    *)
(* of one-character strings; JavaScript objects are functions from their   *)
(* property names; a value that may be null/undefined is a sequence of     *)
(* length 0 (absent) or 1 (present).                                       *)
(***************************************************************************)
EXTENDS Integers, Sequences, FiniteSets, TLC

VARIABLES
    now,        \* the value new Date().getTime() returns
    debug,      \* this.debug of the current Client
    brain,      \* node-persist: key -> <<>> (never saved) or <<value>>
    transport,  \* the elements handed to this.client.send, in order
    history,    \* the calls made so far, each with what it did
    listeners,  \* the callbacks registered for the transport's 'stanza' event
    invoked     \* the invocations of those callbacks, in order

vars == <<now, debug, brain, transport, history, listeners, invoked>>

-----------------------------------------------------------------------------
(* Bounds of the model *)

MaxTime == 10001
MaxCalls == 4

\* steps of the clock between two calls: below, at and above the window
Deltas == {4000, 5000, 5001}

\* the clock reads 0 at first, so that two calls can be 4000, 5000, 5001,
\* 8000, ... ms apart, or at the same millisecond

-----------------------------------------------------------------------------
(* Strings *)

hi == <<"h", "i">>
yo == <<"y", "o">>
al == <<"a", "l">>
bo == <<"b", "o">>

Users == {al, bo}
Texts == {hi, yo}

\* a mutation of ReplyText: the prefix is left out
ReplyTextNoPrefix(username, msg) == msg

\* '@' + username + ': ' + msg
ReplyText(username, msg) == <<"@">> \o username \o <<":", " ">> \o msg

\* crypto.createHash('md5').update( msg ).digest('hex'), tabulated for the
\* texts of the model (the digests are the real MD5 digests)
md5hex(msg) ==
    CASE msg = hi -> "49f68a5c8493ec2c0bf489821c21fc3b"
      [] msg = yo -> "6d0007e52f7afb7d5a0650b0ffb8a4d1"
      [] msg = <<"@", "a", "l", ":", " ", "h", "i">>
             -> "2a84a808c49875de041d70f8af1244f5"
      [] msg = <<"@", "b", "o", ":", " ", "h", "i">>
             -> "868243f3570c8b95b71ba71a16eef54d"
      [] msg = <<"@", "a", "l", ":", " ", "y", "o">>
             -> "cfb68075a9b9268cc72069fd356265a5"
      [] msg = <<"@", "b", "o", ":", " ", "y", "o">>
             -> "e3efd0a5f7e54e4f057c1388adc318c0"

-----------------------------------------------------------------------------
(* JavaScript objects and the persistent store *)

EmptyObject == [k \in {} |-> 0]

\* obj[ key ]: <<>> for undefined
Prop(obj, key) == IF key \in DOMAIN obj THEN <<obj[key]>> ELSE <<>>

\* obj[ key ] = value
SetProp(obj, key, value) ==
    [k \in DOMAIN obj \cup {key} |-> IF k = key THEN value ELSE obj[k]]

Keys == {"messages", "userMessages", "leaderboard"}

\* brain.getItem( key ) || {}: the store is read synchronously, and a key
\* never saved reads as a fresh empty object
getItemOrEmpty(key) == IF brain[key] = <<>> THEN EmptyObject ELSE brain[key][1]

\* brain.setItem( key, value )
setItem(key, value) == [brain EXCEPT ![key] = <<value>>]

-----------------------------------------------------------------------------
(* The record of a call *)

Undefined == [tag |-> "undefined"]
False == [tag |-> "false"]

Call(op, arg, sent, log, ret) ==
    [op |-> op, arg |-> arg, at |-> now, debug |-> debug,
     sent |-> sent, log |-> log, ret |-> ret]

-----------------------------------------------------------------------------
(* Client.sendMessage, src/Client.js:56-94 *)

\* the element built at lines 80-85
MessageElement(msg) ==
    [name |-> "message", to |-> "roomJid", type |-> "groupchat", body |-> msg]

\* a mutation of shouldSend: the window compared with >=
shouldSendAtWindow(previousMessage, messageObj) ==
    \/ previousMessage = <<>>
    \/ messageObj.time - previousMessage[1].time >= 5000

\* line 78: !previousMessage || messageObj.time - previousMessage.time > 5000
shouldSend(previousMessage, messageObj) ==
    \/ previousMessage = <<>>
    \/ messageObj.time - previousMessage[1].time > 5000

\* a mutation of savedMessages: the record is written only when the message
\* was sent
savedMessagesWhenSent(messages, hash, messageObj) ==
    IF shouldSend(Prop(messages, hash), messageObj)
    THEN SetProp(messages, hash, messageObj)
    ELSE messages

\* a mutation of savedMessages: an existing record is kept
savedMessagesKeepFirst(messages, hash, messageObj) ==
    IF hash \in DOMAIN messages THEN messages
    ELSE SetProp(messages, hash, messageObj)

\* a mutation of savedMessages: one record for all texts
savedMessagesOneKey(messages, hash, messageObj) ==
    SetProp(messages, "last", messageObj)

\* line 92: messages[ hash ] = messageObj
savedMessages(messages, hash, messageObj) ==
    SetProp(messages, hash, messageObj)

\* a mutation of debugSend: the debug call goes on to the store
debugSendSaves(msg) ==
    /\ transport' = transport
    /\ brain' = setItem("messages",
                        SetProp(getItemOrEmpty("messages"), md5hex(msg),
                                [message |-> msg, time |-> now]))

\* lines 57-60: the debug branch touches neither the transport nor the store
debugSend(msg) ==
    /\ transport' = transport
    /\ brain' = brain

\* the whole of sendMessage; op and args are the call the caller made, ret
\* is what that call gives back
sendMessageAs(op, args, msg, retDebug) ==
    /\ Len(history) < MaxCalls
    /\ IF debug
       THEN /\ debugSend(msg)
            /\ history' = Append(history,
                   Call(op, msg, FALSE, "DEBUGGING", retDebug)
                       @@ [args |-> args])
       ELSE LET messages == getItemOrEmpty("messages")
                hash == md5hex(msg)
                previousMessage == Prop(messages, hash)
                messageObj == [message |-> msg, time |-> now]
                send == shouldSend(previousMessage, messageObj)
            IN  /\ transport' = IF send
                                THEN Append(transport, MessageElement(msg))
                                ELSE transport
                /\ brain' = setItem("messages",
                                    savedMessages(messages, hash, messageObj))
                /\ history' = Append(history,
                       Call(op, msg, transport' # transport,
                            IF send THEN "" ELSE "Skipping sendMessage",
                            Undefined) @@ [args |-> args])
    /\ UNCHANGED <<now, debug, listeners, invoked>>

sendMessage(msg) == sendMessageAs("sendMessage", <<msg>>, msg, False)

\* Client.replyTo, src/Client.js:102-104: the result of sendMessage is dropped
replyTo(username, msg) ==
    sendMessageAs("replyTo", <<username, msg>>, ReplyText(username, msg),
                  Undefined)

-----------------------------------------------------------------------------
(* Stanzas: an element is [name, attrs, children]; the children of a body  *)
(* element are its text fragments                                          *)

Element(name, attrs, children) ==
    [name |-> name, attrs |-> attrs, children |-> children]

TypeError == [tag |-> "TypeError"]
Event(val) == [tag |-> "event", val |-> val]

\* str.indexOf( ch ): the 0-based place of the first ch, -1 when there is none
indexOf(str, ch) ==
    IF \E i \in 1..Len(str) : str[i] = ch
    THEN (CHOOSE i \in 1..Len(str) :
              str[i] = ch /\ \A j \in 1..(i - 1) : str[j] # ch) - 1
    ELSE -1

\* str.substr( start )
substr(str, start) == SubSeq(str, start + 1, Len(str))

\* children.join('')
RECURSIVE join(_)
join(children) ==
    IF children = <<>> THEN <<>> ELSE Head(children) \o join(Tail(children))

\* str.replace( ch, '' ) with a string pattern: the first ch is removed
replace(str, ch) ==
    LET i == indexOf(str, ch)
    IN  IF i = -1 THEN str
        ELSE SubSeq(str, 1, i) \o SubSeq(str, i + 2, Len(str))

\* Client.findChild, src/Client.js:234-244: <<>> for null
findChild(name, children) ==
    IF \E i \in 1..Len(children) : children[i].name = name
    THEN <<children[CHOOSE i \in 1..Len(children) :
                        /\ children[i].name = name
                        /\ \A j \in 1..(i - 1) : children[j].name # name]>>
    ELSE <<>>

\* str.lastIndexOf( ch )
lastIndexOf(str, ch) ==
    IF \E i \in 1..Len(str) : str[i] = ch
    THEN (CHOOSE i \in 1..Len(str) :
              str[i] = ch /\ \A j \in (i + 1)..Len(str) : str[j] # ch) - 1
    ELSE -1

\* a mutation of parseFromUsername: the address is cut at its last '/'
parseFromUsernameLast(stanza) ==
    substr(stanza.attrs.from, lastIndexOf(stanza.attrs.from, "/") + 1)

\* Client.parseFromUsername, src/Client.js:210-213
parseFromUsername(stanza) ==
    substr(stanza.attrs.from, indexOf(stanza.attrs.from, "/") + 1)

\* line 167: body.children.join('').replace('\\', '')
messageOf(body) == replace(join(body.children), "\\")

\* line 172: (userMessageLog && userMessageLog.lastCommandTime) || 0
lastCommandTimeOf(userMessageLog) ==
    IF userMessageLog # <<>> /\ "lastCommandTime" \in DOMAIN userMessageLog[1]
    THEN userMessageLog[1].lastCommandTime
    ELSE 0

\* line 181: lastCommandTime > 0 && messageObj.time - lastCommandTime < 5000
isRateLimited(lastCommandTime, messageObj) ==
    lastCommandTime > 0 /\ messageObj.time - lastCommandTime < 5000

\* a mutation of newUserMessage: the new record carries the stamp
newUserMessageStamped(time) == [time |-> time, lastCommandTime |-> time]

\* lines 175-177: the new message object
newUserMessage(time) == [time |-> time]

\* a mutation of parseMessage: the store is updated before the body is read
parseMessageStoresFirst(stanza) ==
    LET body == findChild("body", stanza.children)
        fromUsername == parseFromUsername(stanza)
        messages == getItemOrEmpty("userMessages")
        messageObj == newUserMessage(now)
        rateLimited ==
            isRateLimited(lastCommandTimeOf(Prop(messages, fromUsername)),
                          messageObj)
    IN  IF "from" \notin DOMAIN stanza.attrs
        THEN /\ brain' = brain
             /\ history' = Append(history,
                    Call("parseStanza", stanza, FALSE, "", TypeError))
        ELSE /\ brain' = setItem("userMessages",
                             SetProp(messages, fromUsername, messageObj))
             /\ history' = Append(history,
                    Call("parseStanza", stanza, FALSE, "",
                         IF body = <<>> THEN TypeError
                         ELSE Event([type |-> "message",
                                     fromUsername |-> fromUsername,
                                     message |-> messageOf(body[1]),
                                     rateLimited |-> rateLimited])))

\* Client.parseMessage, src/Client.js:162-190
parseMessage(stanza) ==
    LET body == findChild("body", stanza.children)
    IN  IF "from" \notin DOMAIN stanza.attrs \/ body = <<>>
        THEN \* fromJid.substr or body.children of undefined/null throws
             /\ brain' = brain
             /\ history' = Append(history,
                    Call("parseStanza", stanza, FALSE, "", TypeError))
        ELSE LET fromUsername == parseFromUsername(stanza)
                 message == messageOf(body[1])
                 messages == getItemOrEmpty("userMessages")
                 userMessageLog == Prop(messages, fromUsername)
                 lastCommandTime == lastCommandTimeOf(userMessageLog)
                 messageObj == newUserMessage(now)
                 rateLimited == isRateLimited(lastCommandTime, messageObj)
             IN  /\ brain' = setItem("userMessages",
                                 SetProp(messages, fromUsername, messageObj))
                 /\ history' = Append(history,
                        Call("parseStanza", stanza, FALSE, "",
                             Event([type |-> "message",
                                    fromUsername |-> fromUsername,
                                    message |-> message,
                                    rateLimited |-> rateLimited])))

\* a mutation of statusOf: the operands of || are swapped
statusOfAlwaysAvailable(attrs) == "available"

\* line 195: stanza.attrs.type || 'available'; an empty string is falsy
statusOf(attrs) ==
    IF "type" \in DOMAIN attrs /\ attrs.type # ""
    THEN attrs.type
    ELSE "available"

\* Client.parsePresence, src/Client.js:192-203
parsePresence(stanza) ==
    LET xObj == findChild("x", stanza.children)
        itemObj == findChild("item", xObj[1].children)
    IN  /\ brain' = brain
        /\ IF \/ "from" \notin DOMAIN stanza.attrs
              \/ xObj = <<>>
              \/ itemObj = <<>>
           THEN history' = Append(history,
                    Call("parseStanza", stanza, FALSE, "", TypeError))
           ELSE history' = Append(history,
                    Call("parseStanza", stanza, FALSE, "",
                         Event([type |-> "presence",
                                fromUsername |-> parseFromUsername(stanza),
                                message |-> statusOf(stanza.attrs),
                                role |-> Prop(itemObj[1].attrs, "role")])))

\* a mutation of parseStanza: every stanza that is not a presence is taken
\* for a message
parseStanzaDefaultMessage(stanza) ==
    /\ Len(history) < MaxCalls
    /\ IF stanza.name = "presence"
       THEN parsePresence(stanza)
       ELSE parseMessage(stanza)
    /\ UNCHANGED <<now, debug, transport, listeners, invoked>>

\* Client.parseStanza, src/Client.js:151-160
parseStanza(stanza) ==
    /\ Len(history) < MaxCalls
    /\ CASE stanza.name = "message" -> parseMessage(stanza)
         [] stanza.name = "presence" -> parsePresence(stanza)
         [] OTHER -> /\ brain' = brain
                     /\ history' = Append(history,
                            Call("parseStanza", stanza, FALSE, "", Undefined))
    /\ UNCHANGED <<now, debug, transport, listeners, invoked>>

\* lines 222-223: the user's record, when there is one, is stamped in place;
\* when there is none the stamp goes to a fresh object that is not in messages
stampedMessages(messages, username, time) ==
    IF username \in DOMAIN messages
    THEN SetProp(messages, username,
                 SetProp(messages[username], "lastCommandTime", time))
    ELSE messages

\* Client.updateLatestCommandLog, src/Client.js:220-226
updateLatestCommandLog(stanza) ==
    /\ Len(history) < MaxCalls
    /\ brain' = setItem("userMessages",
                        stampedMessages(getItemOrEmpty("userMessages"),
                                        stanza.fromUsername, now))
    /\ history' = Append(history,
           Call("updateLatestCommandLog", stanza, FALSE, "", Undefined))
    /\ UNCHANGED <<now, debug, transport, listeners, invoked>>

-----------------------------------------------------------------------------
(* Settings *)

Null == [tag |-> "null"]
Object(val) == [tag |-> "object", val |-> val]

\* Client.getSetting, src/Client.js:132-134: brain.getItemSync( key ) || null
getSettingValue(key) == brain[key]

getSetting(key) ==
    /\ Len(history) < MaxCalls
    /\ history' = Append(history,
           Call("getSetting", key, FALSE, "",
                IF getSettingValue(key) = <<>> THEN Null
                ELSE Object(getSettingValue(key)[1])))
    /\ UNCHANGED <<now, debug, brain, transport, listeners, invoked>>

\* Client.saveSetting, src/Client.js:142-144
saveSetting(key, value) ==
    /\ Len(history) < MaxCalls
    /\ brain' = setItem(key, value)
    /\ history' = Append(history,
           Call("saveSetting", <<key, value>>, FALSE, "", Undefined))
    /\ UNCHANGED <<now, debug, transport, listeners, invoked>>

\* Client.getUser, src/Client.js:122-125: leaderboard[ username ] || {};
\* indexing null throws
getUser(username) ==
    /\ Len(history) < MaxCalls
    /\ LET leaderboard == getSettingValue("leaderboard")
       IN  history' = Append(history,
               Call("getUser", username, FALSE, "",
                    IF leaderboard = <<>> THEN TypeError
                    ELSE IF username \in DOMAIN leaderboard[1]
                         THEN Object(leaderboard[1][username])
                         ELSE Object(EmptyObject)))
    /\ UNCHANGED <<now, debug, brain, transport, listeners, invoked>>

-----------------------------------------------------------------------------
(* Client.listen, src/Client.js:111-115 *)

\* a mutation of invocations: the callback is called twice for an event
invocationsTwice(registered, stanza) ==
    [i \in 1..(2 * Len(registered)) |->
        [action |-> registered[(i + 1) \div 2], stanza |-> stanza]]

\* lines 112-114: each registered callback is called once with the stanza
\* the transport emitted, in the order of registration
invocations(registered, stanza) ==
    [i \in 1..Len(registered) |->
        [action |-> registered[i], stanza |-> stanza]]

listen(action) ==
    /\ Len(history) < MaxCalls
    /\ listeners' = Append(listeners, action)
    /\ history' = Append(history,
           Call("listen", action, FALSE, "", Undefined))
    /\ UNCHANGED <<now, debug, brain, transport, invoked>>

\* the transport emits its 'stanza' event
stanzaEvent(stanza) ==
    /\ Len(history) < MaxCalls
    /\ invoked' = invoked \o invocations(listeners, stanza)
    /\ history' = Append(history,
           Call("stanza", stanza, FALSE, "", Undefined))
    /\ UNCHANGED <<now, debug, brain, transport, listeners>>

-----------------------------------------------------------------------------
(* The environment *)

\* the constructor, lines 15-36: a new Client over the same brain directory,
\* with a new xmpp.Client that has no 'stanza' callbacks yet
constructor(d) ==
    /\ debug' = d
    /\ listeners' = <<>>
    /\ UNCHANGED <<now, brain, transport, history, invoked>>

\* the clock advances between two calls
Tick(d) ==
    /\ now + d <= MaxTime
    /\ now' = now + d
    /\ UNCHANGED <<debug, brain, transport, history, listeners, invoked>>

-----------------------------------------------------------------------------
(* Specifications *)

Init ==
    /\ now = 0
    /\ debug = FALSE
    /\ brain = [k \in Keys |-> <<>>]
    /\ transport = <<>>
    /\ history = <<>>
    /\ listeners = <<>>
    /\ invoked = <<>>

\* the non-debug client sending and replying
NextSend ==
    \/ \E d \in Deltas : Tick(d)
    \/ \E msg \in Texts : sendMessage(msg)
    \/ \E username \in Users : replyTo(username, hi)

SpecSend == Init /\ [][NextSend]_vars

\* clients in either mode over one store
NextDebug ==
    \/ \E d \in Deltas : Tick(d)
    \/ \E d \in BOOLEAN : constructor(d)
    \/ sendMessage(hi)
    \/ replyTo(al, hi)

SpecDebug == Init /\ [][NextDebug]_vars

\* messages of two users and the command stamp
room == <<"r">>
Jid(username) == room \o <<"/">> \o username

MessageFrom(username, fragments) ==
    Element("message", [from |-> Jid(username), type |-> "groupchat"],
            <<Element("body", EmptyObject, fragments)>>)

NextParse ==
    \/ \E d \in Deltas : Tick(d)
    \/ \E username \in Users : parseStanza(MessageFrom(username, <<hi>>))
    \/ \E username \in Users :
           updateLatestCommandLog([fromUsername |-> username])

SpecParse == Init /\ [][NextParse]_vars

\* stanzas of every shape through the parser
Stanzas ==
    { MessageFrom(al, <<hi>>),
      MessageFrom(al, <<<<"h", "e">>, <<"l", "\\", "o">>>>),
      MessageFrom(bo, <<<<"a", "\\", "b", "\\", "c">>>>),
      MessageFrom(bo, <<>>),
      Element("message", [from |-> Jid(al)],
              <<Element("subject", EmptyObject, <<yo>>),
                Element("body", EmptyObject, <<hi, yo>>),
                Element("body", EmptyObject, <<yo>>)>>),
      Element("message", [from |-> Jid(al)], <<>>),
      Element("presence", [from |-> Jid(al)],
              <<Element("x", EmptyObject,
                        <<Element("item", [role |-> "participant"], <<>>)>>)>>),
      Element("presence", [from |-> Jid(bo), type |-> "unavailable"],
              <<Element("x", EmptyObject,
                        <<Element("item", [role |-> "moderator"], <<>>)>>)>>),
      Element("iq", [from |-> Jid(al)], <<>>),
      Element("iq", [from |-> Jid(bo)],
              <<Element("body", EmptyObject, <<hi>>)>>) }

NextStanza ==
    \E stanza \in Stanzas : parseStanza(stanza)

SpecStanza == Init /\ [][NextStanza]_vars

\* sender addresses of every shape
alice == <<"a", "l", "i", "c", "e">>
roomJid == <<"r", "o", "o", "m", "@", "c", "o", "n", "f", ".",
             "e", "x", "a", "m", "p", "l", "e", ".", "c", "o", "m">>

Addresses ==
    { Jid(al),                              \* r/al
      roomJid \o <<"/">> \o alice,          \* room@conf.example.com/alice
      Jid(al) \o <<"/">> \o bo,             \* r/al/bo
      room \o <<"/", "/">> \o al,           \* r//al
      room \o <<"/">>,                      \* r/
      al }                                  \* al, no '/'

NextFrom ==
    \/ \E from \in Addresses :
           parseStanza(Element("message", [from |-> from],
                               <<Element("body", EmptyObject, <<hi>>)>>))
    \/ \E from \in Addresses :
           parseStanza(Element("presence", [from |-> from],
               <<Element("x", EmptyObject,
                         <<Element("item", [role |-> "participant"], <<>>)>>)>>))

SpecFrom == Init /\ [][NextFrom]_vars

\* presence stanzas of every shape
Item(role) == Element("item", [role |-> role], <<>>)

Presences ==
    { Element("presence", [from |-> Jid(al)],
              <<Element("x", EmptyObject, <<Item("participant")>>)>>),
      Element("presence", [from |-> Jid(bo), type |-> "unavailable"],
              <<Element("x", EmptyObject, <<Item("moderator")>>)>>),
      Element("presence", [from |-> Jid(al), type |-> ""],
              <<Element("x", EmptyObject, <<Item("participant")>>)>>),
      Element("presence", [from |-> Jid(al)],
              <<Element("status", EmptyObject, <<>>),
                Element("x", EmptyObject,
                        <<Element("status", EmptyObject, <<>>),
                          Item("visitor"), Item("moderator")>>),
                Element("x", EmptyObject, <<Item("participant")>>)>>),
      Element("presence", [from |-> Jid(bo)],
              <<Element("x", EmptyObject,
                        <<Element("item", EmptyObject, <<>>)>>)>>),
      Element("presence", [from |-> Jid(bo)],
              <<Element("x", EmptyObject, <<>>),
                Element("x", EmptyObject, <<Item("participant")>>)>>),
      Element("presence", [from |-> Jid(bo), type |-> "unavailable"], <<>>) }

NextPresence ==
    \E stanza \in Presences : parseStanza(stanza)

SpecPresence == Init /\ [][NextPresence]_vars

\* replies and the same texts sent directly
NextReply ==
    \/ \E d \in Deltas : Tick(d)
    \/ \E username \in Users : replyTo(username, hi)
    \/ sendMessage(<<"@", "a", "l", ":", " ", "h", "i">>)
    \/ sendMessage(hi)

SpecReply == Init /\ [][NextReply]_vars

\* callbacks registered and stanzas arriving, after some parsing
Actions == {"onStanza", "onOther"}

NextListen ==
    \/ \E action \in Actions : listen(action)
    \/ \E stanza \in {MessageFrom(al, <<hi>>), MessageFrom(al, <<yo>>),
                       Element("presence", [from |-> Jid(bo)], <<>>)} :
           stanzaEvent(stanza)
    \/ parseStanza(MessageFrom(al, <<hi>>))

SpecListen == Init /\ [][NextListen]_vars

\* well-formed and malformed messages of one user, and the command stamp
NextMalformed ==
    \/ \E d \in Deltas : Tick(d)
    \/ parseStanza(MessageFrom(al, <<hi>>))
    \/ parseStanza(Element("message", [from |-> Jid(al)], <<>>))
    \/ parseStanza(Element("message", [from |-> Jid(al)],
                           <<Element("subject", EmptyObject, <<hi>>)>>))
    \/ updateLatestCommandLog([fromUsername |-> al])

SpecMalformed == Init /\ [][NextMalformed]_vars

\* the leaderboard setting
Leaderboards ==
    { EmptyObject, (al :> [points |-> 1]), (al :> [points |-> 2]) @@ (bo :> [points |-> 0]) }

NextUser ==
    \/ \E username \in Users : getUser(username)
    \/ \E value \in Leaderboards : saveSetting("leaderboard", value)
    \/ getSetting("leaderboard")

SpecUser == Init /\ [][NextUser]_vars

-----------------------------------------------------------------------------
(* Observations on the calls made *)

Last(s) == s[Len(s)]

\* the item 'messages' as sendMessage reads it
Messages == getItemOrEmpty("messages")

\* the calls that reached the dedup logic: sendMessage, directly or through
\* replyTo, on a client that is not in debug mode
IsSend(c) == c.op \in {"sendMessage", "replyTo"} /\ ~c.debug

\* i and j are two successive non-debug sends of one text
SuccessiveSends(i, j) ==
    /\ i < j
    /\ IsSend(history[i]) /\ IsSend(history[j])
    /\ history[i].arg = history[j].arg
    /\ \A k \in (i + 1)..(j - 1) :
           ~(IsSend(history[k]) /\ history[k].arg = history[i].arg)

\* a step that makes one call
CallStep == Len(history') = Len(history) + 1

-----------------------------------------------------------------------------
(* C1 *)

\* C1: of two successive non-debug sendMessage calls of one text at times
\* T1 < T2, the second is handed to the transport exactly when
\* T2 - T1 > 5000 and suppressed exactly when T2 - T1 <= 5000, whether or
\* not the first was transmitted.
C1_DedupWindow ==
    \A i, j \in DOMAIN history :
        (SuccessiveSends(i, j) /\ history[i].at < history[j].at) =>
            /\ history[j].sent <=> (history[j].at - history[i].at > 5000)
            /\ ~history[j].sent <=> (history[j].at - history[i].at <= 5000)

\* a text sent at 0, suppressed at 5000 (exactly the window) and, although
\* that call was suppressed, transmitted again 5001 ms after it
C1_Witness ==
    /\ Len(history) >= 3
    /\ \A i \in 1..3 : IsSend(history[i]) /\ history[i].arg = hi
    /\ history[1].at = 0 /\ history[1].sent
    /\ history[2].at = 5000 /\ ~history[2].sent
    /\ history[3].at = 10001 /\ history[3].sent

-----------------------------------------------------------------------------
(* C3 *)

\* the calls so far are sendMessage("hi") at 0, 4000 and 9000
C3_Scenario ==
    /\ Len(history) = 3
    /\ \A i \in 1..3 : history[i].op = "sendMessage" /\ IsSend(history[i])
                       /\ history[i].arg = hi
    /\ history[1].at = 0 /\ history[2].at = 4000 /\ history[3].at = 9000

\* C3 as stated: after sendMessage("hi") at 0, 4000 and 9000 the second call
\* is suppressed, the third is transmitted and the record of "hi" has time
\* 9000.
C3_Original ==
    C3_Scenario =>
        /\ ~history[2].sent
        /\ history[3].sent
        /\ Prop(Messages, md5hex(hi)) = <<[message |-> hi, time |-> 9000]>>

\* C3 as amended: after sendMessage("hi") at 0, 4000 and 9000 the second
\* call is suppressed, the third is suppressed too (it comes exactly 5000 ms
\* after the record the second call wrote) and the record of "hi" has time
\* 9000.
C3_Amended ==
    C3_Scenario =>
        /\ history[1].sent
        /\ ~history[2].sent
        /\ ~history[3].sent
        /\ Len(transport) = 1
        /\ Prop(Messages, md5hex(hi)) = <<[message |-> hi, time |-> 9000]>>

C3_Witness == C3_Scenario /\ now = 9000

-----------------------------------------------------------------------------
(* C5 *)

\* the texts passed to sendMessage so far
TextsSent == {history[i].arg : i \in {k \in DOMAIN history : IsSend(history[k])}}

\* the time of the most recent sendMessage call with text S
LastSendTime(S) ==
    LET is == {k \in DOMAIN history : IsSend(history[k]) /\ history[k].arg = S}
    IN  history[CHOOSE k \in is : \A m \in is : m <= k].at

\* C5: after any sequence of non-debug sendMessage calls the messages store
\* holds exactly one record per distinct text passed so far, and the record
\* of a text carries that text and the time of the most recent call with it,
\* transmitted or suppressed.
C5_OneRecordPerText ==
    /\ DOMAIN Messages = {md5hex(S) : S \in TextsSent}
    /\ Cardinality(DOMAIN Messages) = Cardinality(TextsSent)
    /\ \A S \in TextsSent :
           Messages[md5hex(S)] = [message |-> S, time |-> LastSendTime(S)]

\* two texts were passed, one of them three times, its last call suppressed
C5_Witness ==
    /\ Len(history) = 4
    /\ Cardinality(TextsSent) = 2
    /\ history[1].arg = hi /\ history[2].arg = hi /\ history[4].arg = hi
    /\ history[1].at < history[2].at /\ history[2].at < history[4].at
    /\ ~history[4].sent
    /\ Messages[md5hex(hi)].time = history[4].at

-----------------------------------------------------------------------------
(* C6 *)

\* C6: a sendMessage call of S leaves the record of every other text as it
\* was, and is transmitted whenever S has no record or S's own record is
\* more than 5000 ms old, however recently another text was sent.
C6_PerTextDedup ==
    [][ (CallStep /\ IsSend(Last(history'))) =>
          LET S == Last(history').arg
              own == Prop(Messages, md5hex(S))
          IN  /\ \A key \in (DOMAIN Messages \cup DOMAIN Messages')
                                \ {md5hex(S)} :
                     Prop(Messages', key) = Prop(Messages, key)
              /\ (own = <<>> \/ now - own[1].time > 5000)
                     => Last(history').sent
      ]_vars

\* a text transmitted at the very time another text was transmitted, the
\* record of the other text still in place
C6_Witness ==
    /\ Len(history) >= 2
    /\ IsSend(history[1]) /\ IsSend(history[2])
    /\ history[1].arg = hi /\ history[2].arg = ReplyText(al, hi)
    /\ history[1].at = history[2].at
    /\ history[1].sent /\ history[2].sent
    /\ Prop(Messages, md5hex(hi)) = <<[message |-> hi, time |-> history[1].at]>>

-----------------------------------------------------------------------------
(* C7 *)

\* every call of a client in debug mode leaves the transport and the store
\* alone and logs the text
DebugNoOp ==
    /\ transport' = transport
    /\ brain' = brain
    /\ ~Last(history').sent
    /\ Last(history').log = "DEBUGGING"

\* C7 as stated: in debug mode every sendMessage and every replyTo call
\* hands nothing to the transport, returns false and leaves the messages
\* store unchanged.
C7_Original ==
    [][ (CallStep /\ Last(history').debug
            /\ Last(history').op \in {"sendMessage", "replyTo"}) =>
          (DebugNoOp /\ Last(history').ret = False)
      ]_vars

\* C7 as amended: in debug mode every sendMessage and every replyTo call
\* hands nothing to the transport and leaves the messages store unchanged;
\* sendMessage returns false, replyTo returns nothing (undefined).
C7_DebugNoOp ==
    [][ (CallStep /\ Last(history').debug
            /\ Last(history').op \in {"sendMessage", "replyTo"}) =>
          /\ DebugNoOp
          /\ Last(history').op = "sendMessage" => Last(history').ret = False
          /\ Last(history').op = "replyTo" => Last(history').ret = Undefined
      ]_vars

\* a debug sendMessage and a debug replyTo were made, and the same text was
\* then transmitted by a non-debug client within the window
C7_Witness ==
    /\ Len(history) = 3
    /\ history[1].debug /\ history[1].op = "sendMessage" /\ history[1].arg = hi
    /\ history[2].debug /\ history[2].op = "replyTo"
    /\ ~history[3].debug /\ history[3].arg = hi /\ history[3].sent
    /\ history[3].at - history[1].at <= 5000
    /\ transport = <<MessageElement(hi)>>

-----------------------------------------------------------------------------
(* Observations on the parser and the rate limit *)

\* the item 'userMessages' as parseMessage reads it
UserMessages == getItemOrEmpty("userMessages")

\* c is a parseStanza call that returned the message event of user U
IsMessageOf(c, U) ==
    /\ c.op = "parseStanza"
    /\ c.ret.tag = "event"
    /\ c.ret.val.type = "message"
    /\ c.ret.val.fromUsername = U

IsStampOf(c, U) ==
    c.op = "updateLatestCommandLog" /\ c.arg.fromUsername = U

\* c reads or writes the userMessages record of U
TouchesUser(c, U) == IsMessageOf(c, U) \/ IsStampOf(c, U)

\* the last-command time the next rate-limit check of U reads. Line 172
\* reads a stamp of 0 as no stamp, so the statements about stamps below are
\* made for calls at times after 0.
StoredLastCommandTime(U) == lastCommandTimeOf(Prop(UserMessages, U))

-----------------------------------------------------------------------------
(* C2 *)

\* C2 as stated: when a message stanza of user U is parsed at T1 and the
\* next one at T2 > T1, with no other operation on U's record in between,
\* the second event has rateLimited = TRUE if T2 - T1 < 5000 and
\* rateLimited = FALSE if T2 - T1 >= 5000.
C2_Original ==
    \A U \in Users : \A i, j \in DOMAIN history :
        ( /\ i < j
          /\ IsMessageOf(history[i], U) /\ IsMessageOf(history[j], U)
          /\ \A k \in (i + 1)..(j - 1) : ~TouchesUser(history[k], U)
          /\ 0 < history[i].at /\ history[i].at < history[j].at ) =>
            history[j].ret.val.rateLimited
                = (history[j].at - history[i].at < 5000)

-----------------------------------------------------------------------------
(* C4 *)

\* C4 as stated: after parseMessage handles a message of user U at time
\* now, U's entry in userMessages holds now as the last-command time the
\* next rate-limit check reads; so in a run of messages of U, each less than
\* 5000 ms after the previous one, every message after the first is
\* reported rateLimited = TRUE.
C4_Original ==
    /\ [][ \A U \in Users :
             (CallStep /\ IsMessageOf(Last(history'), U) /\ now > 0) =>
                 StoredLastCommandTime(U)' = now
         ]_vars
    /\ [](\A U \in Users : \A i, j \in DOMAIN history :
            ( /\ i < j
              /\ IsMessageOf(history[i], U) /\ IsMessageOf(history[j], U)
              /\ \A k \in (i + 1)..(j - 1) : ~IsMessageOf(history[k], U)
              /\ 0 < history[i].at
              /\ history[j].at - history[i].at < 5000 ) =>
                history[j].ret.val.rateLimited)

-----------------------------------------------------------------------------
(* C8 *)

\* C8 as stated: updateLatestCommandLog called at time T for user U sets
\* U's stored last-command time to T, whether or not U already has a record,
\* and a message stanza of U parsed next, less than 5000 ms later, is
\* reported rateLimited = TRUE.
C8_Original ==
    /\ [][ \A U \in Users :
             (CallStep /\ IsStampOf(Last(history'), U) /\ now > 0) =>
                 StoredLastCommandTime(U)' = now
         ]_vars
    /\ [](\A U \in Users : \A i, j \in DOMAIN history :
            ( /\ i < j
              /\ IsStampOf(history[i], U) /\ IsMessageOf(history[j], U)
              /\ \A k \in (i + 1)..(j - 1) : ~TouchesUser(history[k], U)
              /\ 0 < history[i].at
              /\ history[j].at - history[i].at < 5000 ) =>
                history[j].ret.val.rateLimited)

-----------------------------------------------------------------------------
(* C9 *)

\* C9 as stated: in every store state, the one where the leaderboard setting
\* was never saved included, getUser returns the user's record of the
\* leaderboard setting when there is one and an empty record otherwise; it
\* raises no error and leaves the store as it was.
C9_Original ==
    [][ (CallStep /\ Last(history').op = "getUser") =>
          LET username == Last(history').arg
              leaderboard == getItemOrEmpty("leaderboard")
          IN  /\ brain' = brain
              /\ Last(history').ret =
                     Object(IF username \in DOMAIN leaderboard
                            THEN leaderboard[username]
                            ELSE EmptyObject)
      ]_vars

-----------------------------------------------------------------------------
(* C10 *)

\* the text fragments of the first child named body, in order, as one string
BodyText(stanza) ==
    join(SelectSeq(stanza.children, LAMBDA c : c.name = "body")[1].children)

\* C10 as stated: for every message stanza with a body, the parsed body is
\* the concatenation of the text fragments of the first child named body
\* with every backslash removed, and nothing else changed.
C10_Original ==
    \A i \in DOMAIN history :
        ( /\ history[i].op = "parseStanza"
          /\ history[i].arg.name = "message"
          /\ \E n \in DOMAIN history[i].arg.children :
                 history[i].arg.children[n].name = "body" ) =>
            /\ history[i].ret.tag = "event"
            /\ history[i].ret.val.message =
                   SelectSeq(BodyText(history[i].arg), LAMBDA ch : ch # "\\")

-----------------------------------------------------------------------------
(* C11 *)

\* c is a parseStanza call that returned an event
IsEvent(c) == c.op = "parseStanza" /\ c.ret.tag = "event"

HasSlash(str) == \E i \in 1..Len(str) : str[i] = "/"

\* the part of str after its i-th character
After(str, i) == SubSeq(str, i + 1, Len(str))

\* C11 as stated: for every from address with at least one '/',
\* fromUsername is the substring after the last '/' of the address; for
\* "room@conf.example.com/alice" it is "alice".
C11_Original ==
    \A n \in DOMAIN history :
        (IsEvent(history[n]) /\ HasSlash(history[n].arg.attrs.from)) =>
            LET from == history[n].arg.attrs.from
            IN  /\ \E i \in 1..Len(from) :
                       /\ from[i] = "/"
                       /\ \A j \in (i + 1)..Len(from) : from[j] # "/"
                       /\ history[n].ret.val.fromUsername = After(from, i)
                /\ from = roomJid \o <<"/">> \o alice
                       => history[n].ret.val.fromUsername = alice

\* C11 as amended: for every from address with at least one '/',
\* fromUsername is the substring after the first '/' of the address (an
\* address with several '/' yields everything after the first one); for
\* "room@conf.example.com/alice" it is "alice".
C11_AfterFirstSlash ==
    \A n \in DOMAIN history :
        (IsEvent(history[n]) /\ HasSlash(history[n].arg.attrs.from)) =>
            LET from == history[n].arg.attrs.from
            IN  /\ \E i \in 1..Len(from) :
                       /\ from[i] = "/"
                       /\ \A j \in 1..(i - 1) : from[j] # "/"
                       /\ history[n].ret.val.fromUsername = After(from, i)
                /\ from = roomJid \o <<"/">> \o alice
                       => history[n].ret.val.fromUsername = alice

\* r/al/bo was parsed to al/bo and room@conf.example.com/alice to alice
C11_Witness ==
    /\ Len(history) >= 2
    /\ IsEvent(history[1])
    /\ history[1].arg.attrs.from = <<"r", "/", "a", "l", "/", "b", "o">>
    /\ history[1].ret.val.fromUsername = <<"a", "l", "/", "b", "o">>
    /\ IsEvent(history[2])
    /\ history[2].arg.attrs.from = roomJid \o <<"/">> \o alice
    /\ history[2].ret.val.fromUsername = alice

-----------------------------------------------------------------------------
(* C12 *)

\* C12 as stated: for every stanza whose from address contains a '/', the
\* addresses that end with '/' included, the fromUsername of the parsed event
\* is not the empty string.
C12_Original ==
    \A n \in DOMAIN history :
        (IsEvent(history[n]) /\ HasSlash(history[n].arg.attrs.from)) =>
            history[n].ret.val.fromUsername # <<>>

-----------------------------------------------------------------------------
(* C13 *)

\* the children of an element that bear the name
Named(children, name) == SelectSeq(children, LAMBDA c : c.name = name)

IsPresence(c) == c.op = "parseStanza" /\ c.arg.name = "presence"

\* some x child of the stanza contains an item child
SomeXHasItem(stanza) ==
    \E i \in DOMAIN stanza.children :
        /\ stanza.children[i].name = "x"
        /\ Named(stanza.children[i].children, "item") # <<>>

\* the first x child of the stanza contains an item child
FirstXHasItem(stanza) ==
    /\ Named(stanza.children, "x") # <<>>
    /\ Named(Named(stanza.children, "x")[1].children, "item") # <<>>

\* the first item child of the first x child
FirstItem(stanza) == Named(Named(stanza.children, "x")[1].children, "item")[1]

\* C13 as stated: for every presence stanza that has an x child containing
\* an item child, the status of the parsed event is the type attribute when
\* the stanza has one and "available" when it has none, and its role is the
\* role attribute of the first item child of the first x child.
C13_Original ==
    \A n \in DOMAIN history :
        (IsPresence(history[n]) /\ SomeXHasItem(history[n].arg)) =>
            /\ history[n].ret.tag = "event"
            /\ history[n].ret.val.message =
                   IF "type" \in DOMAIN history[n].arg.attrs
                   THEN history[n].arg.attrs.type
                   ELSE "available"
            /\ history[n].ret.val.role =
                   Prop(FirstItem(history[n].arg).attrs, "role")

\* C13 as amended: for every presence stanza whose first x child contains an
\* item child, the status of the parsed event is the type attribute when the
\* stanza has one that is not the empty string and "available" otherwise,
\* and its role is the role attribute of the first item child of the first
\* x child.
C13_PresenceEvent ==
    \A n \in DOMAIN history :
        (IsPresence(history[n]) /\ FirstXHasItem(history[n].arg)) =>
            /\ history[n].ret.tag = "event"
            /\ history[n].ret.val.type = "presence"
            /\ history[n].ret.val.message =
                   IF "type" \in DOMAIN history[n].arg.attrs
                      /\ history[n].arg.attrs.type # ""
                   THEN history[n].arg.attrs.type
                   ELSE "available"
            /\ history[n].ret.val.role =
                   Prop(FirstItem(history[n].arg).attrs, "role")

\* a stanza without type and with role participant gave available and
\* participant, one with type unavailable gave unavailable, and one with two
\* x children gave the role of the first item of the first
C13_Witness ==
    /\ Len(history) = 3
    /\ "type" \notin DOMAIN history[1].arg.attrs
    /\ history[1].ret = Event([type |-> "presence", fromUsername |-> al,
                               message |-> "available",
                               role |-> <<"participant">>])
    /\ history[2].ret.tag = "event"
    /\ history[2].ret.val.message = "unavailable"
    /\ history[2].ret.val.role = <<"moderator">>
    /\ Len(Named(history[3].arg.children, "x")) = 2
    /\ history[3].ret.tag = "event"
    /\ history[3].ret.val.role = <<"visitor">>

-----------------------------------------------------------------------------
(* C14 *)

\* "@" + username + ": " + text, written out
AtUser(username, text) == <<"@">> \o username \o <<":", " ">> \o text

\* what sendMessage( S ) does to the transport and the store on a client that
\* is not in debug mode
SendsLike(S) ==
    LET own == Prop(Messages, md5hex(S))
        send == own = <<>> \/ now - own[1].time > 5000
    IN  /\ transport' = IF send THEN Append(transport, MessageElement(S))
                        ELSE transport
        /\ Messages' = SetProp(Messages, md5hex(S),
                               [message |-> S, time |-> now])

IsReply(c) == c.op = "replyTo" /\ ~c.debug

\* C14: replyTo(username, text) decides, transmits and records as
\* sendMessage("@" + username + ": " + text) does; so a text replied to two
\* different users within 5000 ms is transmitted the second time too when
\* that reply was not made before, and the same reply to the same user within
\* 5000 ms is suppressed, as it is after a sendMessage of the reply's text.
C14_ReplyIsSend ==
    /\ [][ (CallStep /\ IsReply(Last(history'))) =>
             SendsLike(AtUser(Last(history').args[1], Last(history').args[2]))
         ]_vars
    /\ [](\A i, j \in DOMAIN history :
            (i < j /\ IsReply(history[j])
                   /\ history[j].at - history[i].at <= 5000) =>
                /\ ( /\ IsReply(history[i])
                     /\ history[i].args = history[j].args ) =>
                       ~history[j].sent
                /\ ( /\ history[i].op = "sendMessage"
                     /\ history[i].args[1] =
                            AtUser(history[j].args[1], history[j].args[2]) ) =>
                       ~history[j].sent
                /\ ( /\ IsReply(history[i])
                     /\ history[i].args[1] # history[j].args[1]
                     /\ history[i].args[2] = history[j].args[2]
                     /\ \A k \in 1..(j - 1) :
                            history[k].arg # AtUser(history[j].args[1],
                                                   history[j].args[2]) ) =>
                       history[j].sent)

\* hi replied to al and to bo at one time, both transmitted; the reply to al
\* repeated 4000 ms later, suppressed; the reply's text then sent directly
\* 4000 ms after that, suppressed as well
C14_Witness ==
    /\ Len(history) = 4
    /\ history[1].op = "replyTo" /\ history[1].args = <<al, hi>>
    /\ history[2].op = "replyTo" /\ history[2].args = <<bo, hi>>
    /\ history[1].at = history[2].at
    /\ history[1].sent /\ history[2].sent
    /\ history[3].op = "replyTo" /\ history[3].args = <<al, hi>>
    /\ history[3].at = history[1].at + 4000 /\ ~history[3].sent
    /\ history[4].op = "sendMessage"
    /\ history[4].arg = <<"@", "a", "l", ":", " ", "h", "i">>
    /\ history[4].at = history[3].at + 4000 /\ ~history[4].sent
    /\ transport = <<MessageElement(<<"@", "a", "l", ":", " ", "h", "i">>),
                     MessageElement(<<"@", "b", "o", ":", " ", "h", "i">>)>>

-----------------------------------------------------------------------------
(* C15 *)

\* the places of the listen( action ) calls
Registrations(action) ==
    {n \in DOMAIN history :
        history[n].op = "listen" /\ history[n].arg = action}

\* the stanzas the transport emitted after the n-th call, in order
RECURSIVE EmittedAfter(_, _)
EmittedAfter(n, k) ==
    IF k > Len(history) THEN <<>>
    ELSE (IF k > n /\ history[k].op = "stanza"
          THEN <<history[k].arg>> ELSE <<>>) \o EmittedAfter(n, k + 1)

\* the stanzas a callback was invoked with, in order
RECURSIVE InvokedWith(_, _)
InvokedWith(action, k) ==
    IF k > Len(invoked) THEN <<>>
    ELSE (IF invoked[k].action = action
          THEN <<invoked[k].stanza>> ELSE <<>>) \o InvokedWith(action, k + 1)

\* C15: after listen(handler), every stanza event of the transport invokes
\* handler exactly once with the raw stanza, in the order of arrival; listen
\* and the delivery of a stanza call no parser and leave the userMessages
\* and messages stores as they were.
C15_ListenDelivers ==
    /\ [](\A action \in Actions : \A n \in Registrations(action) :
            Registrations(action) = {n} =>
                InvokedWith(action, 1) = EmittedAfter(n, 1))
    /\ [][ (CallStep /\ Last(history').op \in {"listen", "stanza"}) =>
             /\ brain' = brain
             /\ transport' = transport
             /\ \A n \in DOMAIN history : history'[n] = history[n]
             /\ Last(history').op = "listen" => invoked' = invoked
         ]_vars

\* a callback registered after one stanza had arrived was invoked with the
\* two raw stanzas that arrived later, in their order, and the stores hold
\* what the earlier parse left
C15_Witness ==
    /\ Len(history) = 4
    /\ history[1].op = "parseStanza"
    /\ history[2].op = "listen"
    /\ history[3].op = "stanza" /\ history[4].op = "stanza"
    /\ history[3].arg # history[4].arg
    /\ invoked = <<[action |-> history[2].arg, stanza |-> history[3].arg],
                   [action |-> history[2].arg, stanza |-> history[4].arg]>>
    /\ UserMessages = (al :> [time |-> 0])

-----------------------------------------------------------------------------
(* C16 *)

\* C16: parseStanza returns nothing for a stanza that is neither a message
\* nor a presence; a presence stanza and a stanza of another kind leave the
\* userMessages and the messages store as they were; a message stanza
\* changes nothing but the userMessages store.
C16_ParseFrame ==
    [][ (CallStep /\ Last(history').op = "parseStanza") =>
          LET stanza == Last(history').arg
          IN  /\ transport' = transport
              /\ brain'["messages"] = brain["messages"]
              /\ brain'["leaderboard"] = brain["leaderboard"]
              /\ stanza.name # "message" =>
                     brain'["userMessages"] = brain["userMessages"]
              /\ stanza.name \notin {"message", "presence"} =>
                     Last(history').ret = Undefined
      ]_vars

\* a message was parsed and stored, and then a presence and an iq stanza
\* that carries a body were parsed: the presence gave an event, the iq gave
\* nothing, and the store holds what the message left
C16_Witness ==
    /\ Len(history) = 3
    /\ history[1].arg.name = "message" /\ history[1].ret.tag = "event"
    /\ history[2].arg.name = "presence" /\ history[2].ret.tag = "event"
    /\ history[3].arg.name = "iq" /\ history[3].arg.children # <<>>
    /\ history[3].ret = Undefined
    /\ brain = [messages |-> <<>>, leaderboard |-> <<>>,
                userMessages |-> <<(al :> [time |-> 0])>>]

-----------------------------------------------------------------------------
(* C17 *)

\* C17: on a client that is not in debug mode, with the calls made one after
\* the other, the clock never going back and the messages store written by
\* sendMessage alone, any two transmissions of one text are more than
\* 5000 ms apart.
C17_TransmissionsApart ==
    /\ \A i, j \in DOMAIN history :
           ( /\ i < j
             /\ IsSend(history[i]) /\ IsSend(history[j])
             /\ history[i].arg = history[j].arg
             /\ history[i].sent /\ history[j].sent ) =>
               history[j].at - history[i].at > 5000
    /\ Len(transport) = Cardinality({n \in DOMAIN history : history[n].sent})

\* a text transmitted, suppressed on a later call and transmitted again
\* 10001 ms after its first transmission, and a reply transmitted as well
C17_Witness ==
    /\ Len(history) = 4
    /\ \E n \in 1..4 : history[n].op = "replyTo" /\ history[n].sent
    /\ \E i, j, k \in 1..4 :
           /\ i < j /\ j < k
           /\ history[i].arg = hi /\ history[j].arg = hi /\ history[k].arg = hi
           /\ history[i].sent /\ ~history[j].sent /\ history[k].sent
           /\ history[k].at - history[i].at = 10001
    /\ Len(transport) = 3

-----------------------------------------------------------------------------
(* C18 *)

-----------------------------------------------------------------------------
(* C19 *)

HasBody(stanza) ==
    \E n \in DOMAIN stanza.children : stanza.children[n].name = "body"

\* C19: a message stanza without a child named body makes parseMessage fault
\* before the userMessages store is read or written: no event is returned,
\* the store is as it was, and so is the sender's cooldown state.
C19_NoBodyFaults ==
    [][ ( /\ CallStep
          /\ Last(history').op = "parseStanza"
          /\ Last(history').arg.name = "message"
          /\ ~HasBody(Last(history').arg) ) =>
            /\ Last(history').ret = TypeError
            /\ brain' = brain
            /\ \A U \in Users :
                   StoredLastCommandTime(U)' = StoredLastCommandTime(U)
      ]_vars

\* al's record was stamped, a message of al without body faulted and left
\* the stamp in place, and al's next message was reported rate limited
C19_Witness ==
    /\ Len(history) = 4
    /\ now = 4000
    /\ IsMessageOf(history[1], al)
    /\ IsStampOf(history[2], al)
    /\ history[3].op = "parseStanza" /\ history[3].arg.name = "message"
    /\ ~HasBody(history[3].arg) /\ history[3].arg.children # <<>>
    /\ history[3].ret = TypeError
    /\ IsMessageOf(history[4], al) /\ history[4].ret.val.rateLimited

====
